---- MODULE Spec2Model ----
(***************************************************************************)
(* Model of internal/server/util.go of the TURN server: the long-term      *)
(* credential gate authenticateRequest with its nonce registry, the        *)
(* response helpers buildAndSend / buildAndSendErr, and allocationLifeTime.*)
(*                                                                         *)
(* Time is counted in whole seconds (time.Hour = 3600).  A nonce token is  *)
(* an opaque value: buildNonce hashes the clock and a random number, so    *)
(* its result is a nondeterministic member of Tokens, or a failure.        *)
(***************************************************************************)
EXTENDS Integers, Sequences, FiniteSets, TLC

\* ---------------------------------------------------------------- bounds
MaxTicks  == 2          \* clock advances in one behaviour
MaxRequestedLifetime == 7200    \* largest LIFETIME a request asks for, seconds

\* ------------------------------------------------------ program constants
maximumAllocationLifetime == 3600       \* time.Hour, in seconds
nonceLifetime             == 3600       \* time.Hour, in seconds
DefaultLifetime           == 3600       \* proto.DefaultLifetime (internal/proto)

CodeBadRequest   == 400
CodeUnauthorized == 401
CodeStaleNonce   == 438

Realm == "kerry"                        \* r.Realm, the configured realm

\* ------------------------------------------------------------ value sets
Tokens    == {"n1", "n2"}               \* tokens buildNonce can produce
Workers   == {"w1", "w2"}               \* concurrent request flows (SpecConc)
TickSteps == {1, nonceLifetime - 1}     \* clock increments offered to Tick

NoAttr == "noattr"                      \* attribute absent from the message
NoKey  == "nokey"                       \* nil stun.MessageIntegrity / no key
NoTok  == "notok"                       \* no token

\* usersMap of the server: username -> auth key
usersMap == [u \in {"alice"} |-> "keyAlice"]

\* Keys of the sync.Map are interface values: a string key and a pointer key
\* are different keys even when the pointer points at the same text.
StrKey(tok) == [typ |-> "string", val |-> tok]
PtrKey(tok) == [typ |-> "*stun.Nonce", val |-> tok]

\* sync.Map operations on a registry reg (a function from keys to times)
Load(reg, k) ==
    IF k \in DOMAIN reg THEN [value |-> reg[k], ok |-> TRUE]
                        ELSE [value |-> -1, ok |-> FALSE]

Delete(reg, k) == [x \in (DOMAIN reg) \ {k} |-> reg[x]]

\* Variant: a plain Store, which overwrites and never reports a collision
StoreAlways(reg, k, v) ==
    [reg |-> [x \in (DOMAIN reg) \cup {k} |-> IF x = k THEN v ELSE reg[x]],
     actual |-> v, loaded |-> FALSE]

LoadOrStore(reg, k, v) ==
    IF k \in DOMAIN reg
    THEN [reg |-> reg, actual |-> reg[k], loaded |-> TRUE]
    ELSE [reg |-> [x \in (DOMAIN reg) \cup {k} |-> IF x = k THEN v ELSE reg[x]],
          actual |-> v, loaded |-> FALSE]

\* --------------------------------------------------------------- errors
\* An error value: w is the sentinel errors.Is finds (%w), text the parts of
\* its message in order.
NilErr == [w |-> "nil", text |-> <<>>]
Err(name) == [w |-> name, text |-> <<name>>]

errFailedToGenerateNonce == Err("errFailedToGenerateNonce")
errDuplicatedNonce       == Err("errDuplicatedNonce")
errAttributeNotFound     == Err("ErrAttributeNotFound")
errIntegrityMismatch     == Err("ErrIntegrityMismatch")
errNoSuchUser(username)  == [w |-> "errNoSuchUser", text |-> <<"errNoSuchUser", username>>]

\* Results of conn.WriteTo
IOResults == {"ok", "ErrClosed", "EIO"}

\* ------------------------------------------------------------- requests
\* A request message: mi is the key its MESSAGE-INTEGRITY was computed with
\* (NoAttr when the attribute is absent); nonce, realm, username are the
\* attribute values (NoAttr when GetFrom fails).
Requests ==
    [mi : {NoAttr}, nonce : {NoAttr} \cup Tokens, realm : {NoAttr, Realm},
     username : {NoAttr, "alice", "mallory"}]
    \cup
    [mi : {"keyAlice", "keyWrong"}, nonce : {NoAttr} \cup Tokens,
     realm : {NoAttr, Realm}, username : {NoAttr, "alice", "mallory"}]

Contains(m) == m.mi # NoAttr

\* stun.MessageIntegrity(key).Check(m): recompute the HMAC and compare
Check(key, m) == IF m.mi = key THEN NilErr ELSE errIntegrityMismatch

AuthHandler(username, realm, srcAddr) ==
    IF username \in DOMAIN usersMap
    THEN [key |-> usersMap[username], ok |-> TRUE]
    ELSE [key |-> NoKey, ok |-> FALSE]

\* ------------------------------------------------------------ responses
ChallengeMsg(code, nonce) == [code |-> code, nonce |-> nonce, realm |-> Realm]
badRequestMsg == [code |-> CodeBadRequest, nonce |-> NoTok, realm |-> NoAttr]

\* Variant: every write error is dropped
buildAndSendSwallowsErrors(io) == NilErr

\* Variant: a closed connection reported like any other write error
buildAndSendClosedIsError(io) ==
    IF io = "ok" THEN NilErr ELSE Err(io)

\* buildAndSend: the error it returns for a WriteTo result
buildAndSend(io) ==
    IF io = "ErrClosed" THEN NilErr
    ELSE IF io = "ok" THEN NilErr
    ELSE Err(io)

\* Variant: the send failure replaces the original error
buildAndSendErrDropsOriginal(io, err) ==
    LET sendErr == buildAndSend(io) IN
    IF sendErr # NilErr
    THEN [w |-> "errFailedToSendError",
          text |-> <<"errFailedToSendError">> \o sendErr.text]
    ELSE err

\* buildAndSendErr: send, and return the original error to the caller
buildAndSendErr(io, err) ==
    LET sendErr == buildAndSend(io) IN
    IF sendErr # NilErr
    THEN [w |-> "errFailedToSendError",
          text |-> <<"errFailedToSendError">> \o sendErr.text \o err.text]
    ELSE err

\* One write handed to the connection: the message and what WriteTo did
Wrote(msg, io) == [msg |-> msg, io |-> io]

Ret(key, ok, err) == [key |-> key, ok |-> ok, err |-> err]

\* Outcome of a call: return values, registry afterwards, writes attempted,
\* and the token buildNonce produced for it (NoTok when none)
Outcome(ret, reg, out, built) == [ret |-> ret, reg |-> reg, out |-> out, built |-> built]

\* buildNonce: a token, or the random source failing
buildNonce == [nonce : Tokens, err : {NilErr}]
              \cup [nonce : {NoTok}, err : {errFailedToGenerateNonce}]

\* The operators below return the set of outcomes a call can have: one for
\* each result of buildNonce and of conn.WriteTo it consumes.

\* Variant: the challenge is sent without the nonce being registered
respondWithNonceUnregistered(reg, t, responseCode) ==
    UNION { IF b.err # NilErr
            THEN {Outcome(Ret(NoKey, FALSE, b.err), reg, <<>>, NoTok)}
            ELSE {Outcome(Ret(NoKey, FALSE, buildAndSend(io)), reg,
                          <<Wrote(ChallengeMsg(responseCode, b.nonce), io)>>, b.nonce)
                  : io \in IOResults}
          : b \in buildNonce }

respondWithNonce(reg, t, responseCode) ==
    UNION { IF b.err # NilErr
            THEN {Outcome(Ret(NoKey, FALSE, b.err), reg, <<>>, NoTok)}
            ELSE LET st == LoadOrStore(reg, StrKey(b.nonce), t) IN
                 IF st.loaded
                 THEN {Outcome(Ret(NoKey, FALSE, errDuplicatedNonce), st.reg, <<>>, b.nonce)}
                 ELSE {Outcome(Ret(NoKey, FALSE, buildAndSend(io)), st.reg,
                               <<Wrote(ChallengeMsg(responseCode, b.nonce), io)>>, b.nonce)
                       : io \in IOResults}
          : b \in buildNonce }

BadRequest(reg, err) ==
    {Outcome(Ret(NoKey, FALSE, buildAndSendErr(io, err)), reg,
             <<Wrote(badRequestMsg, io)>>, NoTok) : io \in IOResults}

\* Variant: the age test one second early
nonceUsableExpiresEarly(reg, t, m) ==
    LET ld == Load(reg, StrKey(m.nonce)) IN
    IF ~ld.ok THEN FALSE
    ELSE ~(t - ld.value >= nonceLifetime - 1)

\* Variant: the age test with > in place of >=
nonceUsableStrictAge(reg, t, m) ==
    LET ld == Load(reg, StrKey(m.nonce)) IN
    IF ~ld.ok THEN FALSE
    ELSE ~(t - ld.value > nonceLifetime)

\* Variant: the lookup made with the attribute pointer, as the Delete is
nonceUsableLoadByPointer(reg, t, m) ==
    LET ld == Load(reg, PtrKey(m.nonce)) IN
    IF ~ld.ok THEN FALSE
    ELSE ~(t - ld.value >= nonceLifetime)

\* util.go 105-114: the nonce exists and is not expired
nonceUsable(reg, t, m) ==
    LET ld == Load(reg, StrKey(m.nonce)) IN
    IF ~ld.ok THEN FALSE
    ELSE ~(t - ld.value >= nonceLifetime)

\* Variant: the integrity check left out
verifyCredentialsSkipsIntegrity(reg, m, srcAddr) ==
    IF m.realm = NoAttr THEN BadRequest(reg, errAttributeNotFound)
    ELSE IF m.username = NoAttr THEN BadRequest(reg, errAttributeNotFound)
    ELSE LET h == AuthHandler(m.username, m.realm, srcAddr) IN
    IF ~h.ok THEN BadRequest(reg, errNoSuchUser(m.username))
    ELSE {Outcome(Ret(h.key, TRUE, NilErr), reg, <<>>, NoTok)}

\* Variant: a nonce is single-use, removed once it authenticated a request
verifyCredentialsConsumesNonce(reg, m, srcAddr) ==
    IF m.realm = NoAttr THEN BadRequest(reg, errAttributeNotFound)
    ELSE IF m.username = NoAttr THEN BadRequest(reg, errAttributeNotFound)
    ELSE LET h == AuthHandler(m.username, m.realm, srcAddr) IN
    IF ~h.ok THEN BadRequest(reg, errNoSuchUser(m.username))
    ELSE IF Check(h.key, m) # NilErr THEN BadRequest(reg, Check(h.key, m))
    ELSE {Outcome(Ret(h.key, TRUE, NilErr), Delete(reg, StrKey(m.nonce)), <<>>, NoTok)}

\* util.go 116-131: realm, username, credential lookup, integrity check
verifyCredentials(reg, m, srcAddr) ==
    IF m.realm = NoAttr THEN BadRequest(reg, errAttributeNotFound)
    ELSE IF m.username = NoAttr THEN BadRequest(reg, errAttributeNotFound)
    ELSE LET h == AuthHandler(m.username, m.realm, srcAddr) IN
    IF ~h.ok THEN BadRequest(reg, errNoSuchUser(m.username))
    ELSE IF Check(h.key, m) # NilErr THEN BadRequest(reg, Check(h.key, m))
    ELSE {Outcome(Ret(h.key, TRUE, NilErr), reg, <<>>, NoTok)}

\* Variant: a nonce that passes the check is stamped with the current time
authenticateRequestRefreshesNonce(reg, t, m, srcAddr) ==
    IF ~Contains(m) THEN respondWithNonce(reg, t, CodeUnauthorized)
    ELSE IF m.nonce = NoAttr THEN BadRequest(reg, errAttributeNotFound)
    ELSE IF ~nonceUsable(reg, t, m)
    THEN respondWithNonce(Delete(reg, PtrKey(m.nonce)), t, CodeStaleNonce)
    ELSE verifyCredentials([reg EXCEPT ![StrKey(m.nonce)] = t], m, srcAddr)

\* Variant: the credential lookup made before the nonce is validated
authenticateRequestUserFirst(reg, t, m, srcAddr) ==
    IF ~Contains(m) THEN respondWithNonce(reg, t, CodeUnauthorized)
    ELSE IF m.nonce = NoAttr THEN BadRequest(reg, errAttributeNotFound)
    ELSE IF m.realm # NoAttr /\ m.username # NoAttr
            /\ ~AuthHandler(m.username, m.realm, srcAddr).ok
    THEN BadRequest(reg, errNoSuchUser(m.username))
    ELSE IF ~nonceUsable(reg, t, m)
    THEN respondWithNonce(Delete(reg, PtrKey(m.nonce)), t, CodeStaleNonce)
    ELSE verifyCredentials(reg, m, srcAddr)

authenticateRequest(reg, t, m, srcAddr) ==
    IF ~Contains(m) THEN respondWithNonce(reg, t, CodeUnauthorized)
    ELSE IF m.nonce = NoAttr THEN BadRequest(reg, errAttributeNotFound)
    ELSE IF ~nonceUsable(reg, t, m)
    THEN respondWithNonce(Delete(reg, PtrKey(m.nonce)), t, CodeStaleNonce)
    ELSE verifyCredentials(reg, m, srcAddr)

\* Variant: a zero lifetime treated like an absent one
allocationLifeTimeZeroIsDefault(lifetime) ==
    IF lifetime.present /\ lifetime.seconds > 0
       /\ lifetime.seconds < maximumAllocationLifetime
    THEN lifetime.seconds
    ELSE DefaultLifetime

\* Variant: the requested lifetime taken without the upper bound
allocationLifeTimeNoClamp(lifetime) ==
    IF lifetime.present THEN lifetime.seconds ELSE DefaultLifetime

\* allocationLifeTime: lifetime is the LIFETIME attribute of the message
\* (present is FALSE when GetFrom fails)
allocationLifeTime(lifetime) ==
    IF lifetime.present /\ lifetime.seconds < maximumAllocationLifetime
    THEN lifetime.seconds
    ELSE DefaultLifetime

\* ------------------------------------------------- main.go: configuration
\* Socket-type texts are sequences of characters, so that strings.Contains is
\* computed on them.
TextTCP    == <<"t", "c", "p">>
TextUDP    == <<"u", "d", "p">>
TextTCPUDP == <<"t", "c", "p", ",", "u", "d", "p">>
TextRaw    == <<"r", "a", "w">>
TextEmpty  == <<>>

stringsContains(s, substr) ==
    \E i \in 0..(Len(s) - Len(substr)) : SubSeq(s, i + 1, i + Len(substr)) = substr

\* A command-line flag: whether it was passed, and with which value (a value
\* of the flag's type that is not read when it was not passed)
NotPassed(zero) == [passed |-> FALSE, value |-> zero]
Passed(v) == [passed |-> TRUE, value |-> v]
\* flag.String / flag.Int: the value passed, or the flag's default
flagValue(f, default) == IF f.passed THEN f.value ELSE default

\* A key of the JSON config file: whether the file sets it, and to what (a
\* value of the key's type that is not read when the file does not set it)
NotSet(zero) == [set |-> FALSE, value |-> zero]
Set(v) == [set |-> TRUE, value |-> v]

NoUsers == << >>
\* A -users text is the sequence of user=pass items the regular expression
\* finds in it.
\* Command lines and config files considered.  No -config flag is a file that
\* sets no key.  The file does not set multi-thread.
CommandLines ==
    [publicIP   : {NotPassed(""), Passed(""), Passed("2.2.2.2")},
     port       : {NotPassed(0), Passed(0), Passed(6000)},
     realm      : {NotPassed(""), Passed(""), Passed("flag.example")},
     users      : {NotPassed(<<>>), Passed(<<[user |-> "bob", pass |-> "pw2"]>>)},
     socketType : {NotPassed(TextEmpty), Passed(TextTCP), Passed(TextUDP), Passed(TextTCPUDP),
                   Passed(TextRaw)}]

ConfigFiles ==
    [publicIP   : {NotSet(""), Set("1.1.1.1")},
     port       : {NotSet(0), Set(5000)},
     realm      : {NotSet(""), Set("file.example")},
     users      : {NotSet(NoUsers), Set([u \in {"alice"} |-> "pw1"])},
     socketType : {NotSet(TextEmpty), Set(TextTCP), Set(TextUDP)}]

\* var configuration (main.go 37-46); PublicIp and UsersMap start as zero values
configuration ==
    [PublicIp |-> "", Port |-> 3478, UsersMap |-> NoUsers, Realm |-> "kerry",
     SocketType |-> TextTCPUDP]

\* json.Unmarshal into the configuration: the keys the file sets replace the
\* fields, the others keep their values
jsonUnmarshal(file, cfg) ==
    [PublicIp   |-> IF file.publicIP.set THEN file.publicIP.value ELSE cfg.PublicIp,
     Port       |-> IF file.port.set THEN file.port.value ELSE cfg.Port,
     UsersMap   |-> IF file.users.set THEN file.users.value ELSE cfg.UsersMap,
     Realm      |-> IF file.realm.set THEN file.realm.value ELSE cfg.Realm,
     SocketType |-> IF file.socketType.set THEN file.socketType.value ELSE cfg.SocketType]

\* The users map with the items of the -users flag stored into it, in order
RECURSIVE storeUsers(_, _)
storeUsers(usersMap0, items) ==
    IF items = <<>> THEN usersMap0
    ELSE LET kv == Head(items)
             m1 == [u \in (DOMAIN usersMap0) \cup {kv.user} |->
                        IF u = kv.user THEN kv.pass ELSE usersMap0[u]]
         IN storeUsers(m1, Tail(items))

\* loadConfig (main.go 48-99): the configuration after the file and the flags
loadConfig(flags, file) ==
    LET publicIP   == flagValue(flags.publicIP, "")
        port       == flagValue(flags.port, -1)
        realm      == flagValue(flags.realm, "kerry")
        users      == flagValue(flags.users, <<>>)
        socketType == flagValue(flags.socketType, TextEmpty)
        c0         == jsonUnmarshal(file, configuration)
    IN [PublicIp   |-> IF publicIP # "" THEN publicIP ELSE c0.PublicIp,
        Port       |-> IF port > 0 THEN port ELSE c0.Port,
        Realm      |-> IF realm # "" THEN realm ELSE c0.Realm,
        UsersMap   |-> IF Len(users) > 0 THEN storeUsers(c0.UsersMap, users) ELSE c0.UsersMap,
        SocketType |-> IF Len(socketType) > 0 THEN socketType ELSE c0.SocketType]

\* checkConfig (main.go 101-108): TRUE when it does not call log.Fatalf
checkConfig(cfg) == cfg.PublicIp # "" /\ DOMAIN cfg.UsersMap # {}

PanicSocketType == "socketType must be tcp or udp or both(tcp,udp)"
PanicUDPListen  == "Failed to create UDP TURN server listener"
PanicTCPListen  == "Failed to create TURN server listener"
NoPanic         == "no panic"

\* singleThreadSocket (main.go 166-241) up to the server start: the listeners
\* created and the panic raised, for the results of the two listen calls
singleThreadSocket(cfg, udpListenOk, tcpListenOk) ==
    LET wantUDP == stringsContains(cfg.SocketType, TextUDP)
        wantTCP == stringsContains(cfg.SocketType, TextUDP)
    IN IF wantUDP /\ ~udpListenOk
       THEN [listeners |-> {}, panic |-> PanicUDPListen]
       ELSE IF wantTCP /\ ~tcpListenOk
       THEN [listeners |-> IF wantUDP THEN {"udp"} ELSE {}, panic |-> PanicTCPListen]
       ELSE IF ~wantUDP /\ ~wantTCP
       THEN [listeners |-> {}, panic |-> PanicSocketType]
       ELSE [listeners |-> (IF wantUDP THEN {"udp"} ELSE {}) \cup (IF wantTCP THEN {"tcp"} ELSE {}),
             panic |-> NoPanic]

\* ---------------------------------------------------------------- state
VARIABLES
    Nonces,     \* r.Nonces: the nonce registry (sync.Map), key -> issue time
    now,        \* the wall clock, seconds
    ticks,      \* clock advances so far
    last,       \* the latest completed authenticateRequest call (Spec)
    call,       \* per worker: the authenticateRequest call in progress (SpecConc)
    lifetimeCall, \* an allocationLifeTime evaluation: its LIFETIME attribute and result
    mainProc    \* the server process of main.go: flags, config file, configuration, listeners

vars == <<Nonces, now, ticks, last, call, lifetimeCall, mainProc>>

NoCall == [called |-> FALSE]
NoReq  == [mi |-> NoAttr, nonce |-> NoAttr, realm |-> NoAttr, username |-> NoAttr]
NoRet  == Ret(NoKey, FALSE, NilErr)

\* A worker's frame: pc is its position in authenticateRequest, m the request
\* while it is still read, code the response code chosen, built the token
\* from buildNonce, err the error a bad-request send will carry, ret and out
\* the return values and the write once the call is done.
Frame(pc, m, code, built, err, ret, out) ==
    [pc |-> pc, m |-> m, code |-> code, built |-> built, err |-> err,
     ret |-> ret, out |-> out]
Idle == Frame("idle", NoReq, 0, NoTok, NilErr, NoRet, <<>>)

\* The LIFETIME attribute of a message: absent, or a number of seconds
NoLifetime == [present |-> FALSE, seconds |-> 0]
Lifetimes  == {NoLifetime} \cup [present : {TRUE}, seconds : 0..MaxRequestedLifetime]

InitServer ==
    /\ Nonces = [k \in {} |-> 0]
    /\ now = 0
    /\ ticks = 0
    /\ last = NoCall
    /\ call = [w \in Workers |-> Idle]

NoLifetimeCall == [attr |-> NoLifetime, done |-> FALSE, duration |-> 0]

\* The process of main.go before loadConfig, for a command line and a file
Started(flags, file) ==
    [pc |-> "start", flags |-> flags, file |-> file, configuration |-> configuration,
     listeners |-> {}, panic |-> NoPanic]
NoFlags == [publicIP |-> NotPassed(""), port |-> NotPassed(0), realm |-> NotPassed(""),
            users |-> NotPassed(<<>>), socketType |-> NotPassed(TextEmpty)]
NoFile  == [publicIP |-> NotSet(""), port |-> NotSet(0), realm |-> NotSet(""),
            users |-> NotSet(NoUsers), socketType |-> NotSet(TextEmpty)]

Init ==
    /\ InitServer
    /\ lifetimeCall = NoLifetimeCall
    /\ mainProc = Started(NoFlags, NoFile)

\* The clock advances
Tick ==
    /\ ticks < MaxTicks
    /\ \E d \in TickSteps : now' = now + d
    /\ ticks' = ticks + 1
    /\ UNCHANGED <<Nonces, last, call, lifetimeCall, mainProc>>

\* One request handled from arrival to return
Authenticate ==
    \E m \in Requests :
        \E o \in authenticateRequest(Nonces, now, m, "client") :
            /\ Nonces' = o.reg
            /\ last' = [called |-> TRUE, m |-> m, before |-> Nonces, at |-> now,
                        ret |-> o.ret, out |-> o.out, built |-> o.built]
            /\ UNCHANGED <<now, ticks, call, lifetimeCall, mainProc>>

Next == Tick \/ Authenticate

Spec == Init /\ [][Next]_vars

\* ------------------------------------------------- concurrent request flows
\* The same handler, one step per registry operation or network write, so
\* that calls of different workers interleave.

\* What follows a nonce that passed the freshness check (util.go 116-131):
\* the frame that sends a 400, or the frame that returns the key.
AfterNonce(m, srcAddr) ==
    IF m.realm = NoAttr THEN Frame("send", NoReq, CodeBadRequest, NoTok, errAttributeNotFound, NoRet, <<>>)
    ELSE IF m.username = NoAttr THEN Frame("send", NoReq, CodeBadRequest, NoTok, errAttributeNotFound, NoRet, <<>>)
    ELSE LET h == AuthHandler(m.username, m.realm, srcAddr) IN
    IF ~h.ok THEN Frame("send", NoReq, CodeBadRequest, NoTok, errNoSuchUser(m.username), NoRet, <<>>)
    ELSE IF Check(h.key, m) # NilErr
    THEN Frame("send", NoReq, CodeBadRequest, NoTok, Check(h.key, m), NoRet, <<>>)
    ELSE Frame("done", NoReq, 0, NoTok, NilErr, Ret(h.key, TRUE, NilErr), <<>>)

\* A request arrives: integrity presence and the nonce attribute are read
Begin(w) ==
    /\ call[w].pc = "idle"
    /\ \E m \in Requests :
        call' = [call EXCEPT ![w] =
            IF ~Contains(m) THEN Frame("store", NoReq, CodeUnauthorized, NoTok, NilErr, NoRet, <<>>)
            ELSE IF m.nonce = NoAttr
            THEN Frame("send", NoReq, CodeBadRequest, NoTok, errAttributeNotFound, NoRet, <<>>)
            ELSE Frame("load", m, 0, NoTok, NilErr, NoRet, <<>>)]
    /\ UNCHANGED <<Nonces, now, ticks, last, lifetimeCall, mainProc>>

\* r.Nonces.Load and the age test
LoadStep(w) ==
    /\ call[w].pc = "load"
    /\ LET m == call[w].m IN
       call' = [call EXCEPT ![w] =
            IF ~nonceUsable(Nonces, now, m)
            THEN Frame("delete", [NoReq EXCEPT !.nonce = m.nonce], CodeStaleNonce, NoTok, NilErr, NoRet, <<>>)
            ELSE AfterNonce(m, "client")]
    /\ UNCHANGED <<Nonces, now, ticks, last, lifetimeCall, mainProc>>

\* r.Nonces.Delete(nonceAttr)
DeleteStep(w) ==
    /\ call[w].pc = "delete"
    /\ Nonces' = Delete(Nonces, PtrKey(call[w].m.nonce))
    /\ call' = [call EXCEPT ![w] = Frame("store", NoReq, CodeStaleNonce, NoTok, NilErr, NoRet, <<>>)]
    /\ UNCHANGED <<now, ticks, last, lifetimeCall, mainProc>>

\* Variant: the challenge goes out before the nonce is stored
StoreStepUnregistered(w) ==
    /\ call[w].pc = "store"
    /\ \E b \in buildNonce :
        call' = [call EXCEPT ![w] =
            IF b.err # NilErr
            THEN Frame("done", NoReq, @.code, NoTok, NilErr, Ret(NoKey, FALSE, b.err), <<>>)
            ELSE Frame("send", NoReq, @.code, b.nonce, NilErr, NoRet, <<>>)]
    /\ UNCHANGED <<Nonces, now, ticks, last, lifetimeCall, mainProc>>

\* buildNonce and r.Nonces.LoadOrStore(nonce, time.Now())
StoreStep(w) ==
    /\ call[w].pc = "store"
    /\ \E b \in buildNonce :
        IF b.err # NilErr
        THEN /\ call' = [call EXCEPT ![w] = Frame("done", NoReq, @.code, NoTok, NilErr, Ret(NoKey, FALSE, b.err), <<>>)]
             /\ UNCHANGED Nonces
        ELSE LET st == LoadOrStore(Nonces, StrKey(b.nonce), now) IN
             /\ Nonces' = st.reg
             /\ call' = [call EXCEPT ![w] =
                    IF st.loaded
                    THEN Frame("done", NoReq, @.code, b.nonce, NilErr, Ret(NoKey, FALSE, errDuplicatedNonce), <<>>)
                    ELSE Frame("send", NoReq, @.code, b.nonce, NilErr, NoRet, <<>>)]
    /\ UNCHANGED <<now, ticks, last, lifetimeCall, mainProc>>

\* conn.WriteTo of the challenge or of the 400, and the return
SendStep(w) ==
    /\ call[w].pc = "send"
    /\ \E io \in IOResults :
        call' = [call EXCEPT ![w] =
            IF @.code = CodeBadRequest
            THEN Frame("done", NoReq, @.code, NoTok, NilErr,
                       Ret(NoKey, FALSE, buildAndSendErr(io, @.err)), <<Wrote(badRequestMsg, io)>>)
            ELSE Frame("done", NoReq, @.code, @.built, NilErr,
                       Ret(NoKey, FALSE, buildAndSend(io)),
                       <<Wrote(ChallengeMsg(@.code, @.built), io)>>)]
    /\ UNCHANGED <<Nonces, now, ticks, last, lifetimeCall, mainProc>>

\* The caller takes the return values
Return(w) ==
    /\ call[w].pc = "done"
    /\ call' = [call EXCEPT ![w] = Idle]
    /\ UNCHANGED <<Nonces, now, ticks, last, lifetimeCall, mainProc>>

NextConc ==
    \/ Tick
    \/ \E w \in Workers : Begin(w)
    \/ \E w \in Workers : LoadStep(w)
    \/ \E w \in Workers : DeleteStep(w)
    \/ \E w \in Workers : StoreStep(w)
    \/ \E w \in Workers : SendStep(w)
    \/ \E w \in Workers : Return(w)

SpecConc == Init /\ [][NextConc]_vars

\* ------------------------------------------------------ allocation lifetime
\* allocationLifeTime applied to a message with any LIFETIME attribute
InitLife ==
    /\ InitServer
    /\ mainProc = Started(NoFlags, NoFile)
    /\ \E a \in Lifetimes : lifetimeCall = [attr |-> a, done |-> FALSE, duration |-> 0]

ComputeLifetime ==
    /\ ~lifetimeCall.done
    /\ lifetimeCall' = [lifetimeCall EXCEPT !.done = TRUE,
                                            !.duration = allocationLifeTime(lifetimeCall.attr)]
    /\ UNCHANGED <<Nonces, now, ticks, last, call, mainProc>>

NextLife == ComputeLifetime

SpecLife == InitLife /\ [][NextLife]_vars

\* ------------------------------------------------------- main.go: start-up
\* main with any command line and config file
InitMain ==
    /\ InitServer
    /\ lifetimeCall = NoLifetimeCall
    /\ \E flags \in CommandLines, file \in ConfigFiles : mainProc = Started(flags, file)

LoadConfig ==
    /\ mainProc.pc = "start"
    /\ mainProc' = [mainProc EXCEPT !.pc = "loaded",
                        !.configuration = loadConfig(mainProc.flags, mainProc.file)]
    /\ UNCHANGED <<Nonces, now, ticks, last, call, lifetimeCall>>

CheckConfig ==
    /\ mainProc.pc = "loaded"
    /\ mainProc' = [mainProc EXCEPT !.pc =
                        IF checkConfig(mainProc.configuration) THEN "checked" ELSE "fatal"]
    /\ UNCHANGED <<Nonces, now, ticks, last, call, lifetimeCall>>

SingleThreadSocket ==
    /\ mainProc.pc = "checked"
    /\ \E udpListenOk, tcpListenOk \in BOOLEAN :
        LET r == singleThreadSocket(mainProc.configuration, udpListenOk, tcpListenOk) IN
        mainProc' = [mainProc EXCEPT !.pc = IF r.panic = NoPanic THEN "serving" ELSE "panic",
                                     !.listeners = r.listeners,
                                     !.panic = r.panic]
    /\ UNCHANGED <<Nonces, now, ticks, last, call, lifetimeCall>>

NextMain == LoadConfig \/ CheckConfig \/ SingleThreadSocket

SpecMain == InitMain /\ [][NextMain]_vars

\* ====================================================================
\* Properties
\* ====================================================================

\* Readings of the latest completed call
lastNonceKnown == last.m.nonce # NoAttr /\ StrKey(last.m.nonce) \in DOMAIN last.before
lastNonceAge   == last.at - last.before[StrKey(last.m.nonce)]
lastNonceFresh == lastNonceKnown /\ lastNonceAge < nonceLifetime
lastNonceStale == lastNonceKnown /\ lastNonceAge >= nonceLifetime

\* The call took a challenge path: no integrity, or an unknown or stale nonce
lastNoIntegrity == last.called /\ ~Contains(last.m)
lastBadNonce    == last.called /\ Contains(last.m) /\ last.m.nonce # NoAttr /\ ~lastNonceFresh

\* The call could not issue a nonce: nothing registered, nothing written
NonceNotIssued ==
    /\ last.ret.err \in {errFailedToGenerateNonce, errDuplicatedNonce}
    /\ last.out = <<>>
    /\ Nonces = last.before
    /\ last.ret.err = errDuplicatedNonce => StrKey(last.built) \in DOMAIN last.before

\* The call registered a new nonce and handed a challenge with it to the connection
ChallengeIssued(code) ==
    /\ Len(last.out) = 1
    /\ last.out[1].msg = [code |-> code, nonce |-> last.built, realm |-> Realm]
    /\ last.built \in Tokens
    /\ StrKey(last.built) \notin DOMAIN last.before
    /\ StrKey(last.built) \in DOMAIN Nonces
    /\ Nonces[StrKey(last.built)] = last.at

EndsWith(text, suffix) ==
    /\ Len(text) >= Len(suffix)
    /\ SubSeq(text, Len(text) - Len(suffix) + 1, Len(text)) = suffix

\* e is orig itself, or the send-failure wrapper whose message ends with orig's
Reports(e, orig) ==
    \/ e = orig
    \/ e.w = "errFailedToSendError" /\ EndsWith(e.text, orig.text)

\* ---- C1 (as stated)
\* C1, original statement: a request without message integrity is never
\* authenticated and always yields a 401 challenge with the realm and a nonce
\* that was not in the registry before the call.
C1_AlwaysChallenged ==
    lastNoIntegrity => (~last.ret.ok /\ ChallengeIssued(CodeUnauthorized))

\* C1, amended: a request without message integrity is never authenticated;
\* unless nonce generation fails or the generated token is already registered
\* (then the error is returned, nothing is registered and nothing is written),
\* the call registers a token that was not in the registry before it, stamped
\* with the current time, and writes a 401 challenge carrying that token and
\* the realm.
C1_NoIntegrityChallenge ==
    lastNoIntegrity =>
        /\ ~last.ret.ok
        /\ last.ret.key = NoKey
        /\ NonceNotIssued \/ ChallengeIssued(CodeUnauthorized)

\* C1 witness: a 401 challenge delivered while another nonce was already registered
C1_Witness ==
    /\ lastNoIntegrity
    /\ last.before # << >>
    /\ Len(last.out) = 1
    /\ last.out[1].io = "ok"
    /\ last.out[1].msg.code = CodeUnauthorized

\* ---- C2
\* C2: after a request is rejected because its nonce is registered but has aged
\* past nonceLifetime, the registry holds no record for that token.
C2_StaleNonceRemoved ==
    (last.called /\ Contains(last.m) /\ lastNonceStale)
        => ~Load(Nonces, StrKey(last.m.nonce)).ok

\* ---- C3
Challenged(code) ==
    /\ ~last.ret.ok
    /\ NonceNotIssued \/ ChallengeIssued(code)

Rejected400(orig) ==
    /\ ~last.ret.ok
    /\ Len(last.out) = 1
    /\ last.out[1].msg.code = CodeBadRequest
    /\ Reports(last.ret.err, orig)

\* C3: the outcome of a call is decided by the first failing check in the order
\* no integrity (401 path), nonce unparsable (400), nonce unknown or stale (438
\* path), realm or username unparsable (400), no such user (400 with the
\* no-such-user error), integrity mismatch (400), else success.  A 401 or 438
\* path ends in the challenge or in the failure to issue its nonce.
C3_Precedence ==
    last.called =>
        IF ~Contains(last.m) THEN Challenged(CodeUnauthorized)
        ELSE IF last.m.nonce = NoAttr THEN Rejected400(errAttributeNotFound)
        ELSE IF ~lastNonceFresh THEN Challenged(CodeStaleNonce)
        ELSE IF last.m.realm = NoAttr \/ last.m.username = NoAttr
        THEN Rejected400(errAttributeNotFound)
        ELSE IF last.m.username \notin DOMAIN usersMap
        THEN Rejected400(errNoSuchUser(last.m.username))
        ELSE IF last.m.mi # usersMap[last.m.username]
        THEN Rejected400(errIntegrityMismatch)
        ELSE last.ret = Ret(usersMap[last.m.username], TRUE, NilErr) /\ last.out = <<>>

\* C3 witness: an unknown user presenting an unknown nonce was answered with 438
C3_Witness ==
    /\ last.called
    /\ Contains(last.m)
    /\ last.m.username = "mallory"
    /\ last.m.nonce # NoAttr
    /\ ~lastNonceKnown
    /\ Len(last.out) = 1
    /\ last.out[1].msg.code = CodeStaleNonce

\* ---- C4 (as stated)
\* C4, original statement: a request with integrity whose nonce N1 is unknown or
\* stale is answered with a 438 challenge carrying the realm and a newly issued
\* nonce N2 # N1, and is not authenticated.
C4_AlwaysStaleChallenge ==
    lastBadNonce =>
        /\ ~last.ret.ok
        /\ ChallengeIssued(CodeStaleNonce)
        /\ last.built # last.m.nonce

\* C4, amended: such a request is never authenticated; unless nonce generation
\* fails or the generated token is already registered (error returned, nothing
\* written), it is answered with a 438 challenge carrying the realm and a token
\* N2 registered by this call and absent from the registry before it; N2 # N1
\* whenever N1 was registered (the stale case).
C4_StaleNonceChallenge ==
    lastBadNonce =>
        /\ ~last.ret.ok
        /\ last.ret.key = NoKey
        /\ NonceNotIssued \/ ChallengeIssued(CodeStaleNonce)
        /\ (last.out # <<>> /\ lastNonceKnown) => last.built # last.m.nonce

\* C4 witness: a nonce aged exactly nonceLifetime answered with a delivered 438
C4_Witness ==
    /\ lastBadNonce
    /\ lastNonceKnown
    /\ lastNonceAge = nonceLifetime
    /\ Len(last.out) = 1
    /\ last.out[1].io = "ok"
    /\ last.built # last.m.nonce

\* ---- C5
\* C5: a request presenting a registered nonce younger than nonceLifetime, with
\* parseable realm and username, a user the resolver knows and an integrity
\* computed with the resolved key, returns that key, authenticated=true and a
\* nil error.
C5_ValidRequestAuthenticated ==
    (/\ last.called
     /\ Contains(last.m)
     /\ lastNonceFresh
     /\ last.m.realm # NoAttr
     /\ last.m.username # NoAttr
     /\ AuthHandler(last.m.username, last.m.realm, "client").ok
     /\ last.m.mi = AuthHandler(last.m.username, last.m.realm, "client").key)
    => last.ret = Ret(AuthHandler(last.m.username, last.m.realm, "client").key, TRUE, NilErr)

\* C5 witness: a request authenticated with a nonce one second short of its lifetime
C5_Witness ==
    /\ last.called
    /\ last.ret.ok
    /\ last.ret.key = "keyAlice"
    /\ lastNonceKnown
    /\ lastNonceAge = nonceLifetime - 1

\* ---- C6
Registered(w) ==
    /\ call[w].built # NoTok
    /\ \/ call[w].pc = "send"
       \/ call[w].pc = "done" /\ call[w].out # <<>>

\* C6: a call whose token is already registered ends with the duplicated-nonce
\* error and writes nothing, no step changes the issue time of a registered
\* token, and no two calls in progress have registered the same token.
C6_InsertIfAbsent ==
    /\ [](\A w \in Workers :
            (call[w].pc = "done" /\ call[w].ret.err = errDuplicatedNonce)
                => (call[w].out = <<>> /\ StrKey(call[w].built) \in DOMAIN Nonces))
    /\ [](\A w1, w2 \in Workers :
            (w1 # w2 /\ Registered(w1) /\ Registered(w2)) => call[w1].built # call[w2].built)
    /\ [][\A k \in DOMAIN Nonces : k \in DOMAIN Nonces' => Nonces'[k] = Nonces[k]]_vars

\* C6 witness: two calls in progress built the same token; one registered and
\* sent it, the other ended with the duplicated-nonce error
C6_Witness ==
    \E w1, w2 \in Workers :
        /\ w1 # w2
        /\ call[w1].pc = "done" /\ call[w1].out # <<>> /\ call[w1].built # NoTok
        /\ call[w2].pc = "done" /\ call[w2].ret.err = errDuplicatedNonce
        /\ call[w2].built = call[w1].built

\* ---- C7
\* C7: for a request whose LIFETIME is absent or exceeds the maximum,
\* allocationLifeTime returns exactly 3600 seconds, the maximum.
C7_ClampedToMaximum ==
    (/\ lifetimeCall.done
     /\ ~lifetimeCall.attr.present \/ lifetimeCall.attr.seconds > maximumAllocationLifetime)
    => (lifetimeCall.duration = 3600 /\ lifetimeCall.duration = maximumAllocationLifetime)

\* C7 witness: a request for 7200 seconds was evaluated
C7_Witness ==
    /\ lifetimeCall.done
    /\ lifetimeCall.attr.present
    /\ lifetimeCall.attr.seconds = 7200

\* ---- C8
lastBadRequestPath ==
    /\ last.called
    /\ Contains(last.m)
    /\ \/ last.m.nonce = NoAttr
       \/ /\ lastNonceFresh
          /\ \/ last.m.realm = NoAttr
             \/ last.m.username = NoAttr
             \/ last.m.username \notin DOMAIN usersMap
             \/ last.m.mi # usersMap[last.m.username]

lastOriginalError ==
    IF last.m.nonce = NoAttr \/ last.m.realm = NoAttr \/ last.m.username = NoAttr
    THEN errAttributeNotFound
    ELSE IF last.m.username \notin DOMAIN usersMap THEN errNoSuchUser(last.m.username)
    ELSE errIntegrityMismatch

Contained(part, text) ==
    \E i \in 1..Len(text) : i + Len(part) - 1 <= Len(text)
                            /\ SubSeq(text, i, i + Len(part) - 1) = part

\* C8: on every bad-request path exactly one 400 response is written and the
\* original error is returned; when the write fails the returned error is the
\* send-failure error whose message holds both the write error and the
\* original error.
C8_BadRequestErrors ==
    lastBadRequestPath =>
        /\ Len(last.out) = 1
        /\ last.out[1].msg.code = CodeBadRequest
        /\ IF last.out[1].io \in {"ok", "ErrClosed"}
           THEN last.ret.err = lastOriginalError
           ELSE /\ last.ret.err.w = "errFailedToSendError"
                /\ Contained(<<last.out[1].io>>, last.ret.err.text)
                /\ Contained(lastOriginalError.text, last.ret.err.text)

\* C8 witness: the 400 for an unknown user could not be written
C8_Witness ==
    /\ lastBadRequestPath
    /\ lastOriginalError = errNoSuchUser("mallory")
    /\ Len(last.out) = 1
    /\ last.out[1].io = "EIO"

\* ---- C9 (as stated)
\* C9, original statement: on both challenge paths the call answers with a
\* challenge and returns a nil key, authenticated=false and a nil error.
C9_ChallengeNeverError ==
    (lastNoIntegrity \/ lastBadNonce) =>
        (last.ret = Ret(NoKey, FALSE, NilErr) /\ Len(last.out) = 1)

\* C9, amended: on both challenge paths the call returns a nil key and
\* authenticated=false; the error is nil when the challenge was written or the
\* connection was closed, and otherwise it is the nonce-generation error, the
\* duplicated-nonce error (nothing written in either case) or the write error
\* of the challenge.
C9_ChallengeErrors ==
    (lastNoIntegrity \/ lastBadNonce) =>
        /\ last.ret.key = NoKey
        /\ ~last.ret.ok
        /\ IF last.out = <<>>
           THEN last.ret.err \in {errFailedToGenerateNonce, errDuplicatedNonce}
           ELSE /\ Len(last.out) = 1
                /\ last.out[1].msg.code \in {CodeUnauthorized, CodeStaleNonce}
                /\ IF last.out[1].io \in {"ok", "ErrClosed"}
                   THEN last.ret.err = NilErr
                   ELSE last.ret.err = Err(last.out[1].io)

\* C9 witness: a 438 challenge written to a closed connection, nil error returned
C9_Witness ==
    /\ lastBadNonce
    /\ Len(last.out) = 1
    /\ last.out[1].io = "ErrClosed"
    /\ last.ret.err = NilErr

\* ---- C10
\* C10: a successful call leaves the registry as it was and writes nothing, and
\* every call that answers 400 leaves the registry as it was.
C10_NoSideEffects ==
    /\ (last.called /\ last.ret.ok) => (Nonces = last.before /\ last.out = <<>>)
    /\ lastBadRequestPath => Nonces = last.before

\* C10 witness: a successful call made while two nonces were registered
C10_Witness ==
    /\ last.called
    /\ last.ret.ok
    /\ Cardinality(DOMAIN last.before) = 2
    /\ last.at > 0

\* ---- C11
\* C11: a registered nonce presented at an age below nonceLifetime passes the
\* nonce check (the call goes on to the 400 checks or succeeds), and one
\* presented at now >= issuedAt + nonceLifetime takes the 438 path.
C11_ExpiryPredicate ==
    (last.called /\ Contains(last.m) /\ lastNonceKnown) =>
        IF last.at >= last.before[StrKey(last.m.nonce)] + nonceLifetime
        THEN Challenged(CodeStaleNonce)
        ELSE \/ last.ret.ok /\ last.out = <<>>
             \/ Len(last.out) = 1 /\ last.out[1].msg.code = CodeBadRequest

\* C11 witness: a nonce one second short of nonceLifetime passed the nonce
\* check and the request was answered 400 by a later check
C11_Witness ==
    /\ last.called
    /\ Contains(last.m)
    /\ lastNonceKnown
    /\ lastNonceAge = nonceLifetime - 1
    /\ Len(last.out) = 1
    /\ last.out[1].msg.code = CodeBadRequest

\* ---- C12
\* C12: for a requested lifetime d with 0 <= d < maximumAllocationLifetime,
\* allocationLifeTime returns exactly d; zero is returned as zero.
C12_RequestedLifetimeKept ==
    (/\ lifetimeCall.done
     /\ lifetimeCall.attr.present
     /\ lifetimeCall.attr.seconds < maximumAllocationLifetime)
    => lifetimeCall.duration = lifetimeCall.attr.seconds

\* C12 witness: a request for a lifetime of zero was evaluated
C12_Witness ==
    /\ lifetimeCall.done
    /\ lifetimeCall.attr.present
    /\ lifetimeCall.attr.seconds = 0
    /\ lifetimeCall.duration = 0

\* ---- C13
\* C13: a write to a closed connection is no error: a challenge written to it
\* leaves its nonce registered and returns a nil error, a 400 written to it
\* returns the original error alone; any other write failure is returned, on
\* the challenge paths as it is and on the 400 paths inside the send-failure
\* error.
C13_ClosedIsNoError ==
    (last.called /\ Len(last.out) = 1) =>
        IF last.out[1].io = "ErrClosed"
        THEN IF last.out[1].msg.code = CodeBadRequest
             THEN last.ret.err = lastOriginalError
             ELSE last.ret.err = NilErr /\ StrKey(last.built) \in DOMAIN Nonces
        ELSE IF last.out[1].io = "ok"
        THEN last.ret.err = NilErr \/ last.out[1].msg.code = CodeBadRequest
        ELSE /\ last.ret.err # NilErr
             /\ Contained(<<last.out[1].io>>, last.ret.err.text)

\* C13 witness: the 400 for an integrity mismatch written to a closed
\* connection, the mismatch error returned alone
C13_Witness ==
    /\ last.called
    /\ Len(last.out) = 1
    /\ last.out[1].io = "ErrClosed"
    /\ last.out[1].msg.code = CodeBadRequest
    /\ last.ret.err = errIntegrityMismatch

\* ---- C14
\* C14: authenticated=true is returned only for a request with integrity, a
\* registered nonce younger than nonceLifetime, parseable realm and username,
\* a user the resolver knows and an integrity computed with that user's key,
\* and then with that key and a nil error; every other call returns a nil key
\* and authenticated=false.
C14_AuthenticatedOnlyIf ==
    last.called =>
        IF last.ret.ok
        THEN /\ Contains(last.m)
             /\ lastNonceFresh
             /\ last.m.realm # NoAttr
             /\ last.m.username \in DOMAIN usersMap
             /\ last.m.mi = usersMap[last.m.username]
             /\ last.ret.key = usersMap[last.m.username]
             /\ last.ret.err = NilErr
        ELSE last.ret.key = NoKey

\* C14 witness: a request authenticated with a nonce issued in the same second,
\* after the clock had advanced
C14_Witness ==
    /\ last.called
    /\ last.ret.ok
    /\ last.ret.err = NilErr
    /\ lastNonceAge = 0
    /\ last.at > 0

\* ---- C15
IsChallenge(code) == code \in {CodeUnauthorized, CodeStaleNonce}

\* C15: under every interleaving, the token of a challenge being sent or sent
\* is in the registry; the step that brings a call to the send of a challenge
\* is the step in which that call inserted the token, stamped with the current
\* time; and the send step writes the token the call registered and leaves the
\* registry as it is.
C15_RegisteredBeforeSend ==
    /\ [](\A w \in Workers :
            (/\ IsChallenge(call[w].code)
             /\ call[w].pc = "send" \/ (call[w].pc = "done" /\ call[w].out # <<>>))
            => StrKey(call[w].built) \in DOMAIN Nonces)
    /\ [][\A w \in Workers :
            (call[w].pc # "send" /\ call'[w].pc = "send" /\ IsChallenge(call'[w].code))
            => /\ call[w].pc = "store"
               /\ StrKey(call'[w].built) \notin DOMAIN Nonces
               /\ StrKey(call'[w].built) \in DOMAIN Nonces'
               /\ Nonces'[StrKey(call'[w].built)] = now]_vars
    /\ [][\A w \in Workers :
            (call[w].pc = "send" /\ call'[w].pc = "done" /\ IsChallenge(call[w].code))
            => /\ Nonces' = Nonces
               /\ call'[w].out[1].msg = [code |-> call[w].code, nonce |-> call[w].built,
                                          realm |-> Realm]]_vars

\* C15 witness: a 401 and a 438 challenge of two calls are both about to be
\* sent, each with its own registered token
C15_Witness ==
    \E w1, w2 \in Workers :
        /\ call[w1].pc = "send" /\ call[w1].code = CodeUnauthorized
        /\ call[w2].pc = "send" /\ call[w2].code = CodeStaleNonce
        /\ call[w1].built # call[w2].built
        /\ {StrKey(call[w1].built), StrKey(call[w2].built)} \subseteq DOMAIN Nonces

\* ---- C16
Stale(tok) ==
    /\ StrKey(tok) \in DOMAIN Nonces
    /\ now - Nonces[StrKey(tok)] >= nonceLifetime

\* C16: no step changes the issue time of a registered token; a call that
\* authenticates a request found its token registered and younger than
\* nonceLifetime; a call presented with a stale token rejects it; and a token
\* that is stale stays stale, so every later request presenting it is rejected.
C16_NonceLifeNotExtended ==
    /\ [][\A k \in DOMAIN Nonces : k \in DOMAIN Nonces' => Nonces'[k] = Nonces[k]]_vars
    /\ []((last.called /\ last.ret.ok) =>
            /\ StrKey(last.m.nonce) \in DOMAIN Nonces
            /\ last.at < Nonces[StrKey(last.m.nonce)] + nonceLifetime)
    /\ []((last.called /\ Contains(last.m) /\ lastNonceStale) => ~last.ret.ok)
    /\ [][\A tok \in Tokens : Stale(tok) => Stale(tok)']_vars

\* C16 witness: a token that authenticated nothing any more: presented well
\* past its lifetime with the right key, rejected, its issue time as before
C16_Witness ==
    /\ last.called
    /\ Contains(last.m)
    /\ last.m.mi = "keyAlice"
    /\ last.m.username = "alice"
    /\ lastNonceStale
    /\ lastNonceAge > nonceLifetime
    /\ ~last.ret.ok
    /\ Nonces[StrKey(last.m.nonce)] = last.before[StrKey(last.m.nonce)]

\* ---- C17
\* C17: singleThreadSocket creates only a TCP listener for "tcp", only a UDP
\* listener for "udp", both for "tcp,udp", and panics with the socket-type
\* message only when the socket type names neither tcp nor udp.
C17_ListenersFollowSocketType ==
    LET st == mainProc.configuration.SocketType IN
    /\ mainProc.pc = "serving" =>
          /\ st = TextTCP => mainProc.listeners = {"tcp"}
          /\ st = TextUDP => mainProc.listeners = {"udp"}
          /\ st = TextTCPUDP => mainProc.listeners = {"udp", "tcp"}
    /\ (mainProc.pc = "panic" /\ mainProc.panic = PanicSocketType) =>
          (~stringsContains(st, TextTCP) /\ ~stringsContains(st, TextUDP))

\* ---- C18
\* C18: after loadConfig, for each of public-ip, port, realm, users and
\* socket-type whose flag was not passed, the configuration holds the value
\* the config file sets (the built-in value when the file sets none).
C18_FileKeptWithoutFlag ==
    mainProc.pc # "start" =>
        LET f == mainProc.flags
            file == mainProc.file
            c == mainProc.configuration
            kept(key, builtin) == IF key.set THEN key.value ELSE builtin
        IN /\ ~f.publicIP.passed => c.PublicIp = kept(file.publicIP, configuration.PublicIp)
           /\ ~f.port.passed => c.Port = kept(file.port, configuration.Port)
           /\ ~f.realm.passed => c.Realm = kept(file.realm, configuration.Realm)
           /\ ~f.users.passed => c.UsersMap = kept(file.users, configuration.UsersMap)
           /\ ~f.socketType.passed => c.SocketType = kept(file.socketType, configuration.SocketType)

====
